---- MODULE Spec2Model ----
(***************************************************************************)
(* Model of the Slack archiver (src/src/archiver.py): SlackArchiver's      *)
(* user cache, the four pagination loops, archive_channel,                 *)
(* archive_all_channels and the archive directory they write to.           *)
(*                                                                         *)
(* One action is one request to the Slack API (or one file-system call)    *)
(* together with all the code that runs until the next request.  The       *)
(* Slack workspace the API serves is chosen in Init (ws) and never         *)
(* changes; what one request answers is chosen by the request's action.    *)
(***************************************************************************)
EXTENDS Integers, Sequences, FiniteSets, TLC

VARIABLES
    ws,               \* the workspace behind the API (an input, fixed)
    plan,             \* what the caller of SlackArchiver still calls
    pc,               \* the code's position
    mode,             \* the public method the caller is in
    users_cache,      \* SlackArchiver.users_cache
    cursor,           \* the running pagination loop's cursor
    requests,         \* the cursors the running loop has sent so far
    responses,        \* what the API answered to them (has_more, next_cursor)
    all_channels,     \* get_all_channels: all_channels
    all_messages,     \* get_channel_history: all_messages
    messages,         \* archive_channel: messages
    i,                \* archive_channel: the thread loop's index
    thread_messages,  \* get_thread_messages: all_messages
    include_threads,  \* archive_channel: include_threads
    channel,          \* archive_channel: channel_id, channel_name
    archive_data,     \* archive_channel: archive_data
    filepath,         \* archive_channel: filepath
    api_log,          \* the API methods archive_channel has called, in order
    channels,         \* archive_all_channels: channels
    idx,              \* archive_all_channels: the loop's position
    saved_files,      \* archive_all_channels: saved_files
    failed_channels,  \* archive_all_channels: failed_channels
    attempts,         \* the archive_channel calls archive_all_channels made,
                      \* each with how it ended
    files,            \* the archive directory: file name -> content
    clock,            \* the wall clock's second
    ret,              \* what the last finished call returned or raised
    args,             \* main: the parsed command line
    exit_code,        \* main: the status the process ended with
    text,             \* format_text: text
    format_type,      \* format_text: format_type
    loaded,           \* the archive document load_archive returned
    output            \* what the converter produced

vars == <<ws, plan, pc, mode, users_cache, cursor, requests, responses,
          all_channels, all_messages, messages, i, thread_messages,
          include_threads, channel, archive_data, filepath, api_log,
          channels, idx, saved_files, failed_channels, attempts, files,
          clock, ret, args, exit_code, text, format_type, loaded,
          output>>

\* the state of the command line and of the converter
frontVars == <<args, exit_code, text, format_type, loaded, output>>

(***************************************************************************)
(* Bounds of the model.                                                    *)
(***************************************************************************)
\* requests one pagination loop may send before the API ends the listing
MaxPages == 3

\* archive_channel calls into the directory that is indexed
MaxArchives == 3

(***************************************************************************)
(* Python values.                                                          *)
(***************************************************************************)
\* dict.get(key, default)
Get(d, k, default) == IF k \in DOMAIN d THEN d[k] ELSE default

\* dict with d[k] = v set
Put(d, k, v) == [x \in DOMAIN d \cup {k} |-> IF x = k THEN v ELSE d[x]]

\* the empty dict
EmptyDict == [x \in {} |-> ""]

\* a missing or empty next_cursor (None and "" are both falsy)
NoCursor == ""

\* the Slack timestamps the model knows: decimal strings of 0..MaxTs
MaxTs == 5

\* float(s) succeeds
Parseable(s) == \E n \in 0..MaxTs : ToString(n) = s

\* float(s), for a parseable s
Float(s) == CHOOSE n \in 0..MaxTs : ToString(n) = s

\* datetime.fromtimestamp(ts).isoformat()
IsoFormat(n) == "T" \o ToString(n)

\* Python's None
None == "None"

\* bool(v) of a string or None
Truthy(v) == v \notin {None, ""}

(***************************************************************************)
(* The workspaces the API may serve, each with the calls its caller makes. *)
(* "people" has many kinds of user record, "history" a channel whose       *)
(* history spans pages, "threads" a channel whose threads span pages,      *)
(* "listing" a channel list of several pages, "batch" several small        *)
(* channels that are archived in one run, "index" one channel that is       *)
(* archived several times into a directory that is then indexed.           *)
(***************************************************************************)
Worlds == {"people", "history", "threads", "listing", "batch", "index"}

\* a field that may be missing: no field, or the field with one of vals
Opt(k, vals) == {EmptyDict} \cup {[x \in {k} |-> v] : v \in vals}

\* the user records of users.list: real_name and name may be missing or ""
UserRecords ==
    { [id |-> u] @@ rn @@ n :
        u \in {"U1", "U2"},
        rn \in Opt("real_name", {"", "Alice"}),
        n \in Opt("name", {"", "alice"}) }

alice == [id |-> "U1", real_name |-> "Alice", name |-> "alice"]

\* the pages of members users.list may answer with
UsersPages(w) ==
    IF w = "people" THEN {<<>>} \cup {<<u>> : u \in UserRecords}
    ELSE {<<alice>>}

\* channel names are sequences of characters
general == [id |-> "C0", name |-> <<"g">>]
slashed == [id |-> "C1", name |-> <<"a", "/", "b">>]
dashed  == [id |-> "C2", name |-> <<"a", "-", "b">>]

\* the pages of channels conversations.list may answer with
ChannelsPages(w) ==
    IF w = "listing" THEN {<<>>, <<slashed>>, <<dashed>>, <<dashed, slashed>>}
    ELSE IF w = "batch" THEN {<<>>, <<slashed>>, <<dashed, slashed>>}
    ELSE {<<general>>}

\* the channels a caller may name
KnownChannels(w) == IF w = "batch" THEN {slashed, dashed} ELSE {general}

\* messages of conversations.history: user and reply_count may be missing
m1   == [ts |-> "1", user |-> "U1"]
m2   == [ts |-> "2", user |-> "U2", reply_count |-> 2]
m3   == [ts |-> "3", reply_count |-> 0]
m4   == [ts |-> "4", user |-> "U2"]
m5   == [ts |-> "5", user |-> "U1", reply_count |-> 1]
mbad == [ts |-> "bad", user |-> "U1"]

\* replies of conversations.replies
r4 == [ts |-> "4", user |-> "U1"]
r5 == [ts |-> "5", user |-> "U2"]

\* the pages of messages conversations.history may answer with
HistoryPages(w) ==
    CASE w = "history" -> {<<>>, <<m1>>, <<m3, m1>>, <<m4, m3>>, <<mbad>>}
      [] w = "threads" -> {<<m1>>, <<m3, m2, m1>>, <<m5, m2>>}
      [] w = "batch"   -> {<<m1>>, <<mbad>>}
      [] w = "index"   -> {<<m1>>}
      [] OTHER         -> {<<m1>>, <<m4, m1>>}

\* the replies (parent left out) one page of conversations.replies may hold
RepliesPages(w) ==
    IF w = "threads" THEN {<<>>, <<r5, r4>>} ELSE {<<r4>>}

\* the listing of the workspace that spans several pages
Paged(w, api) ==
    CASE api = "users"    -> w = "people"
      [] api = "channels" -> w = "listing"
      [] api = "history"  -> w = "history"
      [] api = "replies"  -> w = "threads"

\* the calls the caller makes after construction
Plans(w) ==
    CASE w = "batch"   -> [list |-> 0, archive |-> 1, all |-> 1, index |-> 0,
                           stats |-> 0]
      [] w = "listing" -> [list |-> 1, archive |-> 0, all |-> 0, index |-> 0,
                           stats |-> 0]
      [] w = "index"   -> [list |-> 0, archive |-> MaxArchives, all |-> 0,
                           index |-> 2, stats |-> 1]
      [] OTHER         -> [list |-> 0, archive |-> 1, all |-> 0, index |-> 0,
                           stats |-> 0]

(***************************************************************************)
(* Pure helpers of the archiver.                                           *)
(***************************************************************************)
\* _load_users_cache: the name cached for one user record
UserName(user) ==
    IF Truthy(Get(user, "real_name", None))
    THEN user.real_name
    ELSE Get(user, "name", "Unknown")

\* _load_users_cache: the cache after the members of one page
RECURSIVE LoadMembers(_, _)
LoadMembers(cache, members) ==
    IF members = <<>> THEN cache
    ELSE LoadMembers(Put(cache, Head(members).id, UserName(Head(members))),
                     Tail(members))

\* _get_user_name
GetUserName(cache, user_id) == Get(cache, user_id, user_id)

\* get_channel_history: the sort key, float(m.get('ts', 0))
SortKey(m) == IF "ts" \in DOMAIN m THEN Float(m.ts) ELSE 0

\* get_channel_history: float() raises ValueError on some message's ts
SortRaises(msgs) ==
    \E j \in 1..Len(msgs) : "ts" \in DOMAIN msgs[j] /\ ~Parseable(msgs[j].ts)

\* list.sort(key=...): stable, ascending
RECURSIVE InsertByKey(_, _)
InsertByKey(sorted, m) ==
    IF sorted = <<>> THEN <<m>>
    ELSE IF SortKey(Head(sorted)) <= SortKey(m)
         THEN <<Head(sorted)>> \o InsertByKey(Tail(sorted), m)
         ELSE <<m>> \o sorted

\* get_channel_history without the final sort
UnsortedHistory(msgs) == msgs

RECURSIVE SortByTs(_)
SortByTs(msgs) ==
    IF msgs = <<>> THEN <<>>
    ELSE InsertByKey(SortByTs(SubSeq(msgs, 1, Len(msgs) - 1)), msgs[Len(msgs)])

\* _enrich_message
EnrichMessage(cache, message) ==
    LET named == IF "user" \in DOMAIN message
                 THEN Put(message, "user_name", GetUserName(cache, message.user))
                 ELSE message
        flagged == IF "reply_count" \in DOMAIN named /\ named.reply_count > 0
                   THEN Put(named, "_has_thread", TRUE)
                   ELSE named
    IN  IF "ts" \in DOMAIN flagged /\ Parseable(flagged.ts)
        THEN Put(flagged, "timestamp_readable", IsoFormat(Float(flagged.ts)))
        ELSE flagged

\* archive_channel: enriched_messages
EnrichAll(cache, msgs) == [j \in 1..Len(msgs) |-> EnrichMessage(cache, msgs[j])]

\* archive_channel: archive_data
ArchiveData(ch, enriched) ==
    [metadata |-> [channel_id |-> ch.id, channel_name |-> ch.name],
     messages |-> enriched,
     message_count |-> Len(enriched)]

\* archive_channel: safe_channel_name
SafeChannelName(name) ==
    [j \in 1..Len(name) |-> IF name[j] \in {"/", "\\"} THEN "-" ELSE name[j]]

\* archive_channel: filename, with strftime's second as the stamp
FileName(name, now) == SafeChannelName(name) \o <<"_", ToString(now), ".json">>

\* archive_channel fetching the thread of every message that has a
\* reply_count, 0 included
RECURSIVE NextWithReplyCount(_, _)
NextWithReplyCount(msgs, j) ==
    IF j > Len(msgs) THEN 0
    ELSE IF "reply_count" \in DOMAIN msgs[j] THEN j
    ELSE NextWithReplyCount(msgs, j + 1)

\* archive_channel: the first message from position j on whose thread is fetched
RECURSIVE NextThread(_, _)
NextThread(msgs, j) ==
    IF j > Len(msgs) THEN 0
    ELSE IF Get(msgs[j], "reply_count", 0) > 0 THEN j
    ELSE NextThread(msgs, j + 1)

\* a file open(..., 'w') has created or truncated and json.dump has not finished
PartialFile == [state |-> "partial"]

\* a file json.dump has written in full
CompleteFile(doc) == [state |-> "complete", doc |-> doc]

\* create_index: the index file's name
IndexName == <<"INDEX", ".json">>

\* the file holds JSON that json.load reads
Readable(file) == file.state = "complete"

\* the number a stamp of a file name stands for, -1 for any other piece
Stamp(piece) ==
    IF \E n \in 0..99 : ToString(n) = piece
    THEN CHOOSE n \in 0..99 : ToString(n) = piece
    ELSE -1

\* the code point that starts a piece of a file name
Ord(piece) ==
    CASE piece = "-"     -> 45
      [] piece = ".json" -> 46
      [] piece = "INDEX" -> 73
      [] piece = "_"     -> 95
      [] piece = "a"     -> 97
      [] piece = "b"     -> 98
      [] piece = "g"     -> 103
      [] OTHER           -> 48

\* sorted(): path a comes before path b
RECURSIVE Before(_, _)
Before(a, b) ==
    IF a = <<>> THEN b # <<>>
    ELSE IF b = <<>> THEN FALSE
    ELSE IF Head(a) = Head(b) THEN Before(Tail(a), Tail(b))
    ELSE IF Stamp(Head(a)) >= 0 /\ Stamp(Head(b)) >= 0
         THEN Stamp(Head(a)) < Stamp(Head(b))
         ELSE Ord(Head(a)) < Ord(Head(b))

\* create_index: sorted(self.archive_dir.glob('*.json'))
RECURSIVE SortedGlob(_)
SortedGlob(names) ==
    IF names = {} THEN <<>>
    ELSE LET first == CHOOSE n \in names : \A o \in names \ {n} : Before(n, o)
         IN  <<first>> \o SortedGlob(names \ {first})

\* create_index without the test for INDEX.json
SkipsNothing(name) == FALSE

\* create_index: the file is INDEX.json itself and is left out
SkipsIndex(name) == name = IndexName

\* create_index: the entry of the file name whose JSON is data
IndexEntry(name, data) ==
    [filename |-> name,
     channel_name |-> Get(Get(data, "metadata", EmptyDict), "channel_name", None),
     channel_id |-> Get(Get(data, "metadata", EmptyDict), "channel_id", None),
     message_count |-> Get(data, "message_count", 0)]

\* create_index: the entries of the files names of the directory dir
RECURSIVE IndexEntries(_, _)
IndexEntries(dir, names) ==
    IF names = <<>> THEN <<>>
    ELSE IF SkipsIndex(Head(names)) \/ ~Readable(dir[Head(names)])
         THEN IndexEntries(dir, Tail(names))
         ELSE <<IndexEntry(Head(names), dir[Head(names)].doc)>>
                  \o IndexEntries(dir, Tail(names))

\* create_index: index_data
IndexData(dir) == [archives |-> IndexEntries(dir, SortedGlob(DOMAIN dir))]

\* get_archive_stats: the counts over the files names of the directory dir
RECURSIVE ArchiveStats(_, _)
ArchiveStats(dir, names) ==
    IF names = <<>> THEN [total_archives |-> 0, total_messages |-> 0]
    ELSE LET rest == ArchiveStats(dir, Tail(names))
             file == dir[Head(names)]
         IN  IF Head(names) = IndexName THEN rest
             ELSE [total_archives |-> rest.total_archives + 1,
                   total_messages |->
                       rest.total_messages
                           + (IF Readable(file)
                              THEN Get(file.doc, "message_count", 0) ELSE 0)]

(***************************************************************************)
(* The API's answers.                                                      *)
(***************************************************************************)
\* the cursor the API hands out with the answer to the running loop's request
FreshCursor == "c" \o ToString(Len(requests) + 1)

\* what the answer to the next request may say about further pages; the
\* history and replies answers carry has_more, the users and channels
\* answers do not
Paging(api) ==
    LET flags == IF api \in {"history", "replies"}
                 THEN {[has_more |-> h] : h \in BOOLEAN}
                 ELSE {EmptyDict}
        last  == IF api \in {"history", "replies"}
                 THEN {[has_more |-> FALSE]}
                 ELSE {EmptyDict}
    IN  IF Paged(ws, api) /\ Len(requests) + 1 < MaxPages
        THEN {f @@ [next_cursor |-> c] : f \in flags, c \in {NoCursor, FreshCursor}}
        ELSE {f @@ [next_cursor |-> NoCursor] : f \in last}

\* the answer ends the listing by either field
Terminal(pg) ==
    \/ ~Truthy(pg.next_cursor)
    \/ "has_more" \in DOMAIN pg /\ ~pg.has_more

(***************************************************************************)
(* Initial state: SlackArchiver.__init__ has created the cache and is      *)
(* about to send _load_users_cache's first request.                        *)
(***************************************************************************)
\* no call has finished yet
Void == [kind |-> "void"]

\* archive_channel's archive_data before it is built
NoData == ArchiveData(general, <<>>)

\* the archiver's memory before anything ran, the code at position start
Fresh(start) ==
    /\ ws \in Worlds
    /\ plan = Plans(ws)
    /\ pc = start
    /\ mode = "init"
    /\ users_cache = EmptyDict
    /\ cursor = NoCursor
    /\ requests = <<>>
    /\ responses = <<>>
    /\ all_channels = <<>>
    /\ all_messages = <<>>
    /\ messages = <<>>
    /\ i = 0
    /\ thread_messages = <<>>
    /\ include_threads = TRUE
    /\ channel = general
    /\ archive_data = NoData
    /\ filepath = <<>>
    /\ api_log = <<>>
    /\ channels = <<>>
    /\ idx = 0
    /\ saved_files = <<>>
    /\ failed_channels = <<>>
    /\ attempts = <<>>
    /\ files = EmptyDict
    /\ clock = 0
    /\ ret = Void

\* no command line: the archiver is used as a library
NoArgs == [mode |-> "library"]

\* main has not ended
Running == -1

\* neither main nor the converter is in use
FrontIdle ==
    /\ args = NoArgs
    /\ exit_code = Running
    /\ text = <<>>
    /\ format_type = ""
    /\ loaded = NoData
    /\ output = <<>>

Init == Fresh("users") /\ FrontIdle

\* the locals of archive_channel and of the loops it runs
channelVars == <<all_messages, messages, i, thread_messages, archive_data, filepath>>

\* the locals of archive_all_channels
batchVars == <<channels, idx, saved_files, failed_channels, attempts>>

\* the requests of the running pagination loop and their answers
logVars == <<requests, responses>>

\* a pagination loop starts: cursor = None, nothing sent
StartLoop ==
    /\ cursor' = NoCursor
    /\ requests' = <<>>
    /\ responses' = <<>>

\* the running loop has sent its request and got the answer pg with the
\* items of page
Answered(page, pg) ==
    /\ requests' = Append(requests, cursor)
    /\ responses' = Append(responses, [items |-> page] @@ pg)

\* the running loop's request raised SlackApiError
Failed ==
    /\ requests' = Append(requests, cursor)
    /\ UNCHANGED responses

(***************************************************************************)
(* _load_users_cache: one users_list request.                              *)
(***************************************************************************)
\* _load_users_cache dropping what it loaded when a request fails
UsersErrorClearsCache ==
    /\ pc = "users"
    /\ \/ \E page \in UsersPages(ws), pg \in Paging("users") :
            /\ Answered(page, pg)
            /\ users_cache' = LoadMembers(users_cache, page)
            /\ IF ~Truthy(pg.next_cursor)
               THEN pc' = "ready" /\ mode' = "idle" /\ cursor' = NoCursor
               ELSE pc' = "users" /\ cursor' = pg.next_cursor /\ UNCHANGED mode
       \/ /\ Failed
          /\ pc' = "ready"
          /\ mode' = "idle"
          /\ cursor' = NoCursor
          /\ users_cache' = EmptyDict
    /\ UNCHANGED <<frontVars, ws, plan, all_channels, channelVars, include_threads, channel,
                   api_log, batchVars, files, clock, ret>>

\* _load_users_cache: one pass of the loop, or the handler of SlackApiError
UsersList ==
    /\ pc = "users"
    /\ \/ \E page \in UsersPages(ws), pg \in Paging("users") :
            /\ Answered(page, pg)
            /\ users_cache' = LoadMembers(users_cache, page)
            /\ IF ~Truthy(pg.next_cursor)
               THEN pc' = "ready" /\ mode' = "idle" /\ cursor' = NoCursor
               ELSE pc' = "users" /\ cursor' = pg.next_cursor /\ UNCHANGED mode
       \/ /\ Failed
          /\ pc' = "ready"
          /\ mode' = "idle"
          /\ cursor' = NoCursor
          /\ UNCHANGED users_cache
    /\ UNCHANGED <<frontVars, ws, plan, all_channels, channelVars, include_threads, channel,
                   api_log, batchVars, files, clock, ret>>

(***************************************************************************)
(* The caller: the public methods called on the constructed archiver.      *)
(* What the call before left behind (its result, its locals) is gone.      *)
(***************************************************************************)
CallGetAllChannels ==
    /\ pc = "ready"
    /\ plan.list > 0
    /\ plan' = [plan EXCEPT !.list = @ - 1]
    /\ mode' = "list"
    /\ pc' = "channels"
    /\ all_channels' = <<>>
    /\ StartLoop
    /\ ret' = Void
    /\ api_log' = <<>>
    /\ channels' = <<>>
    /\ idx' = 0
    /\ saved_files' = <<>>
    /\ failed_channels' = <<>>
    /\ attempts' = <<>>
    /\ UNCHANGED <<frontVars, ws, users_cache, channelVars, include_threads, channel,
                   files, clock>>

\* archive_channel is entered for channel ch
EnterArchiveChannel(ch) ==
    /\ channel' = ch
    /\ api_log' = <<>>
    /\ pc' = "info"

CallArchiveChannel ==
    /\ pc = "ready"
    /\ plan.archive > 0
    /\ plan' = [plan EXCEPT !.archive = @ - 1]
    /\ mode' = "archive"
    /\ \E ch \in KnownChannels(ws) : EnterArchiveChannel(ch)
    /\ \E threads \in BOOLEAN : include_threads' = threads
    /\ StartLoop
    /\ ret' = Void
    /\ channels' = <<>>
    /\ idx' = 0
    /\ saved_files' = <<>>
    /\ failed_channels' = <<>>
    /\ attempts' = <<>>
    /\ UNCHANGED <<frontVars, ws, users_cache, all_channels, channelVars, files, clock>>

CallArchiveAllChannels ==
    /\ pc = "ready"
    /\ plan.all > 0
    /\ plan' = [plan EXCEPT !.all = @ - 1]
    /\ mode' = "all"
    /\ pc' = "channels"
    /\ all_channels' = <<>>
    /\ StartLoop
    /\ \E threads \in BOOLEAN : include_threads' = threads
    /\ channels' = <<>>
    /\ idx' = 0
    /\ saved_files' = <<>>
    /\ failed_channels' = <<>>
    /\ attempts' = <<>>
    /\ ret' = Void
    /\ api_log' = <<>>
    /\ UNCHANGED <<frontVars, ws, users_cache, channelVars, channel, files, clock>>

(***************************************************************************)
(* get_all_channels: one conversations_list request.                       *)
(***************************************************************************)
\* get_all_channels returns result, to the caller or to archive_all_channels
ReturnChannels(result) ==
    /\ all_channels' = <<>>
    /\ cursor' = NoCursor
    /\ IF mode = "all"
       THEN /\ channels' = result
            /\ idx' = 1
            /\ pc' = "loop"
            /\ UNCHANGED <<mode, ret>>
       ELSE /\ ret' = [kind |-> "list", val |-> result, by |-> "get_all_channels"]
            /\ pc' = "ready"
            /\ mode' = "idle"
            /\ UNCHANGED <<channels, idx>>

ConversationsList ==
    /\ pc = "channels"
    /\ \/ \E page \in ChannelsPages(ws), pg \in Paging("channels") :
            /\ Answered(page, pg)
            /\ IF ~Truthy(pg.next_cursor)
               THEN ReturnChannels(all_channels \o page)
               ELSE /\ all_channels' = all_channels \o page
                    /\ cursor' = pg.next_cursor
                    /\ UNCHANGED <<pc, mode, ret, channels, idx>>
       \/ /\ Failed
          /\ ReturnChannels(all_channels)
    /\ UNCHANGED <<frontVars, ws, plan, users_cache, channelVars, include_threads, channel,
                   api_log, saved_files, failed_channels, attempts, files, clock>>

(***************************************************************************)
(* archive_channel.                                                        *)
(***************************************************************************)
\* archive_channel returns or raises r, to the caller or to
\* archive_all_channels; its locals are gone
Returns(r) ==
    /\ ret' = r
    /\ all_messages' = <<>>
    /\ messages' = <<>>
    /\ i' = 0
    /\ thread_messages' = <<>>
    /\ archive_data' = NoData
    /\ filepath' = <<>>
    /\ cursor' = NoCursor
    /\ IF mode = "all"
       THEN pc' = "returned" /\ UNCHANGED <<mode, include_threads>>
       ELSE pc' = "ready" /\ mode' = "idle" /\ include_threads' = TRUE

ReturnsNone == Returns([kind |-> "None"])

\* archive_channel letting the SlackApiError of conversations_info out
InfoErrorRaised ==
    /\ pc = "info"
    /\ api_log' = Append(api_log, "conversations_info")
    /\ \/ /\ pc' = "history"
          /\ StartLoop
          /\ UNCHANGED <<mode, ret, include_threads, channelVars>>
       \/ /\ Returns([kind |-> "raise", exc |-> "SlackApiError"])
          /\ UNCHANGED logVars
    /\ UNCHANGED <<frontVars, ws, plan, users_cache, all_channels, channel, batchVars,
                   files, clock>>

\* archive_channel: the call of conversations_info; when it succeeds
\* get_channel_history starts its loop
ConversationsInfo ==
    /\ pc = "info"
    /\ api_log' = Append(api_log, "conversations_info")
    /\ \/ /\ pc' = "history"
          /\ StartLoop
          /\ UNCHANGED <<mode, ret, include_threads, channelVars>>
       \/ /\ ReturnsNone
          /\ UNCHANGED logVars
    /\ UNCHANGED <<frontVars, ws, plan, users_cache, all_channels, channel, batchVars,
                   files, clock>>

\* get_channel_history leaves its loop with all_messages = msgs: the sort
\* runs, and archive_channel gets the result or the sort's exception
ReturnHistory(msgs) ==
    IF SortRaises(msgs)
    THEN Returns([kind |-> "raise", exc |-> "ValueError"])
    ELSE /\ messages' = SortByTs(msgs)
         /\ all_messages' = <<>>
         /\ cursor' = NoCursor
         /\ pc' = "threads"
         /\ UNCHANGED <<mode, ret, include_threads, i, thread_messages,
                        archive_data, filepath>>

\* get_channel_history: one conversations_history request
ConversationsHistory ==
    /\ pc = "history"
    /\ api_log' = Append(api_log, "conversations_history")
    /\ \/ \E page \in HistoryPages(ws), pg \in Paging("history") :
            /\ Answered(page, pg)
            /\ IF ~pg.has_more
               THEN ReturnHistory(all_messages \o page)
               ELSE /\ all_messages' = all_messages \o page
                    /\ cursor' = pg.next_cursor
                    /\ UNCHANGED <<pc, mode, ret, include_threads, messages, i,
                                   thread_messages, archive_data, filepath>>
       \/ /\ Failed
          /\ ReturnHistory(all_messages)
    /\ UNCHANGED <<frontVars, ws, plan, users_cache, all_channels, channel, batchVars,
                   files, clock>>

\* the user ids of msgs the cache does not know, cached under the id
RECURSIVE CacheUnknown(_, _)
CacheUnknown(cache, msgs) ==
    IF msgs = <<>> THEN cache
    ELSE IF "user" \in DOMAIN Head(msgs) /\ Head(msgs).user \notin DOMAIN cache
         THEN CacheUnknown(Put(cache, Head(msgs).user, Head(msgs).user), Tail(msgs))
         ELSE CacheUnknown(cache, Tail(msgs))

\* archive_channel caching the names it resolves while it enriches
EnrichmentFillsCache ==
    /\ pc = "threads"
    /\ IF include_threads /\ NextThread(messages, i + 1) # 0
       THEN /\ i' = NextThread(messages, i + 1)
            /\ StartLoop
            /\ pc' = "replies"
            /\ UNCHANGED <<archive_data, users_cache>>
       ELSE /\ archive_data' = ArchiveData(channel, EnrichAll(users_cache, messages))
            /\ pc' = "open"
            /\ users_cache' = CacheUnknown(users_cache, messages)
            /\ UNCHANGED <<i, cursor, logVars>>
    /\ UNCHANGED <<frontVars, ws, plan, mode, all_channels, all_messages,
                   messages, thread_messages, include_threads, channel, filepath,
                   api_log, batchVars, files, clock, ret>>

\* archive_channel: the thread loop moves on from position i to the next
\* message with replies and starts get_thread_messages; with no such message
\* left (or include_threads false) the messages are enriched and
\* archive_data is built
ThreadLoop ==
    /\ pc = "threads"
    /\ IF include_threads /\ NextThread(messages, i + 1) # 0
       THEN /\ i' = NextThread(messages, i + 1)
            /\ StartLoop
            /\ pc' = "replies"
            /\ UNCHANGED archive_data
       ELSE /\ archive_data' = ArchiveData(channel, EnrichAll(users_cache, messages))
            /\ pc' = "open"
            /\ UNCHANGED <<i, cursor, logVars>>
    /\ UNCHANGED <<frontVars, ws, plan, mode, users_cache, all_channels, all_messages,
                   messages, thread_messages, include_threads, channel, filepath,
                   api_log, batchVars, files, clock, ret>>

\* get_thread_messages returns replies: archive_channel attaches them to
\* messages[i]
ReturnThread(replies) ==
    /\ messages' = [messages EXCEPT ![i] = Put(@, "thread_messages", replies)]
    /\ thread_messages' = <<>>
    /\ cursor' = NoCursor
    /\ pc' = "threads"

\* the answers of conversations.replies to a request with cursor c: the API
\* puts the parent first in the answer to the first request
RepliesAnswers(parent, c) ==
    IF c = NoCursor
    THEN {<<parent>> \o page : page \in RepliesPages(ws)}
    ELSE RepliesPages(ws)

\* get_thread_messages: one conversations_replies request
ConversationsReplies ==
    /\ pc = "replies"
    /\ api_log' = Append(api_log, "conversations_replies")
    /\ \/ \E page \in RepliesAnswers(messages[i], cursor), pg \in Paging("replies") :
            /\ Answered(page, pg)
            /\ IF ~pg.has_more
               THEN ReturnThread(thread_messages \o page)
               ELSE /\ thread_messages' = thread_messages \o page
                    /\ cursor' = pg.next_cursor
                    /\ UNCHANGED <<pc, messages>>
       \/ /\ Failed
          /\ ReturnThread(thread_messages)
    /\ UNCHANGED <<frontVars, ws, plan, mode, users_cache, all_channels, all_messages, i,
                   include_threads, channel, archive_data, filepath, batchVars,
                   files, clock, ret>>

\* archive_channel: the file name is built from the clock, and the file is
\* opened for writing, which creates it or truncates what it held
OpenFile ==
    /\ pc = "open"
    /\ \E now \in {clock, clock + 1} :
            /\ clock' = now
            /\ \/ /\ filepath' = FileName(channel.name, now)
                  /\ files' = Put(files, filepath', PartialFile)
                  /\ pc' = "dump"
                  /\ UNCHANGED <<mode, ret, include_threads, all_messages,
                                 messages, i, thread_messages, archive_data,
                                 cursor>>
               \/ /\ ReturnsNone
                  /\ UNCHANGED files
    /\ UNCHANGED <<frontVars, ws, plan, users_cache, logVars, all_channels, channel,
                   api_log, batchVars>>

\* archive_channel: json.dump writes archive_data and the file is closed, or
\* the write raises part way
DumpFile ==
    /\ pc = "dump"
    /\ \/ /\ files' = Put(files, filepath, CompleteFile(archive_data))
          /\ Returns([kind |-> "path", val |-> filepath])
       \/ /\ ReturnsNone
          /\ UNCHANGED files
    /\ UNCHANGED <<frontVars, ws, plan, users_cache, logVars, all_channels, channel,
                   api_log, batchVars, clock>>

(***************************************************************************)
(* archive_all_channels.                                                   *)
(***************************************************************************)
\* the head of the loop: archive_channel for the next channel, or the return
ArchiveAllLoop ==
    /\ pc = "loop"
    /\ IF idx <= Len(channels)
       THEN /\ attempts' = Append(attempts, [channel |-> channels[idx],
                                             outcome |-> "running"])
            /\ EnterArchiveChannel(channels[idx])
            /\ UNCHANGED <<mode, ret, include_threads>>
       ELSE /\ ret' = [kind |-> "list", val |-> saved_files,
                        by |-> "archive_all_channels"]
            /\ pc' = "ready"
            /\ mode' = "idle"
            /\ include_threads' = TRUE
            /\ UNCHANGED <<attempts, channel, api_log>>
    /\ UNCHANGED <<frontVars, ws, plan, users_cache, cursor, logVars, all_channels,
                   channelVars, channels, idx, saved_files, failed_channels,
                   files, clock>>

\* archive_all_channels letting an exception of archive_channel end the loop
StopOnException(kind, j) == IF kind = "raise" THEN Len(channels) + 1 ELSE j + 1

\* the loop's position after the body ended with an outcome of that kind:
\* a caught exception continues with the next channel like a return does
NextChannel(kind, j) == j + 1

\* archive_all_channels catching an exception without recording the channel
ExceptionNotRecorded ==
    /\ pc = "returned"
    /\ IF ret.kind = "raise"
       THEN UNCHANGED <<failed_channels, saved_files, clock>>
       ELSE /\ IF ret.kind = "path"
               THEN /\ saved_files' = Append(saved_files, ret.val)
                    /\ UNCHANGED failed_channels
               ELSE /\ failed_channels' = Append(failed_channels, channel.name)
                    /\ UNCHANGED saved_files
            /\ clock' = clock + 1
    /\ attempts' = [attempts EXCEPT ![idx].outcome = ret.kind]
    /\ idx' = NextChannel(ret.kind, idx)
    /\ pc' = "loop"
    /\ ret' = Void
    /\ UNCHANGED <<frontVars, ws, plan, mode, users_cache, cursor, logVars, all_channels,
                   channelVars, include_threads, channel, api_log, channels,
                   files>>

\* the rest of the loop body after archive_channel returned or raised:
\* the bookkeeping, and time.sleep(1) unless an exception was caught
ArchiveAllStep ==
    /\ pc = "returned"
    /\ IF ret.kind = "raise"
       THEN /\ failed_channels' = Append(failed_channels, channel.name)
            /\ UNCHANGED <<saved_files, clock>>
       ELSE /\ IF ret.kind = "path"
               THEN /\ saved_files' = Append(saved_files, ret.val)
                    /\ UNCHANGED failed_channels
               ELSE /\ failed_channels' = Append(failed_channels, channel.name)
                    /\ UNCHANGED saved_files
            /\ clock' = clock + 1
    /\ attempts' = [attempts EXCEPT ![idx].outcome = ret.kind]
    /\ idx' = NextChannel(ret.kind, idx)
    /\ pc' = "loop"
    /\ ret' = Void
    /\ UNCHANGED <<frontVars, ws, plan, mode, users_cache, cursor, logVars, all_channels,
                   channelVars, include_threads, channel, api_log, channels,
                   files>>

(***************************************************************************)
(* The directory-level operations.                                         *)
(***************************************************************************)
\* the results of the call before are gone when the caller calls again
ForgetBatch ==
    /\ channels' = <<>>
    /\ idx' = 0
    /\ saved_files' = <<>>
    /\ failed_channels' = <<>>
    /\ attempts' = <<>>
    /\ api_log' = <<>>

\* create_index: the directory is read, then INDEX.json is opened for
\* writing and dumped; open may fail, and the dump may fail part way
CreateIndex ==
    /\ pc = "ready"
    /\ plan.index > 0
    /\ plan' = [plan EXCEPT !.index = @ - 1]
    /\ \/ /\ files' = Put(files, IndexName, CompleteFile(IndexData(files)))
          /\ ret' = [kind |-> "path", val |-> IndexName]
       \/ /\ files' = Put(files, IndexName, PartialFile)
          /\ ret' = [kind |-> "None"]
       \/ /\ UNCHANGED files
          /\ ret' = [kind |-> "None"]
    /\ ForgetBatch
    /\ UNCHANGED <<frontVars, ws, pc, mode, users_cache, cursor, logVars, all_channels,
                   channelVars, include_threads, channel, clock>>

\* get_archive_stats
GetArchiveStats ==
    /\ pc = "ready"
    /\ plan.stats > 0
    /\ plan' = [plan EXCEPT !.stats = @ - 1]
    /\ ret' = [kind |-> "stats",
               val |-> ArchiveStats(files, SortedGlob(DOMAIN files))]
    /\ ForgetBatch
    /\ UNCHANGED <<frontVars, ws, pc, mode, users_cache, cursor, logVars, all_channels,
                   channelVars, include_threads, channel, files, clock>>

(***************************************************************************)
(* The operator interrupts the process (KeyboardInterrupt): the code       *)
(* stops where it is and its memory is gone; the archive directory stays   *)
(* as it is.                                                               *)
(***************************************************************************)
Interrupt ==
    /\ pc \notin {"ready", "dead"}
    /\ pc' = "dead"
    /\ mode' = "idle"
    /\ plan' = [list |-> 0, archive |-> 0, all |-> 0, index |-> 0, stats |-> 0]
    /\ users_cache' = EmptyDict
    /\ StartLoop
    /\ all_channels' = <<>>
    /\ all_messages' = <<>>
    /\ messages' = <<>>
    /\ i' = 0
    /\ thread_messages' = <<>>
    /\ include_threads' = TRUE
    /\ channel' = general
    /\ archive_data' = NoData
    /\ filepath' = <<>>
    /\ api_log' = <<>>
    /\ channels' = <<>>
    /\ idx' = 0
    /\ saved_files' = <<>>
    /\ failed_channels' = <<>>
    /\ attempts' = <<>>
    /\ ret' = Void
    /\ UNCHANGED <<frontVars, ws, files, clock>>

Next ==
    \/ UsersList
    \/ CallGetAllChannels
    \/ CallArchiveChannel
    \/ CallArchiveAllChannels
    \/ ConversationsList
    \/ ConversationsInfo
    \/ ConversationsHistory
    \/ ThreadLoop
    \/ ConversationsReplies
    \/ OpenFile
    \/ DumpFile
    \/ ArchiveAllLoop
    \/ ArchiveAllStep
    \/ CreateIndex
    \/ GetArchiveStats
    \/ Interrupt

Spec == Init /\ [][Next]_vars

(***************************************************************************)
(* main.py: the command line.  main parses the arguments, checks the       *)
(* token, constructs the archiver (UsersList above) and runs the mode.     *)
(* Every mode but --convert starts with a call that passes only_joined;    *)
(* Python binds a call's keyword arguments to the parameters of the def.   *)
(***************************************************************************)
\* the modes of the mutually exclusive group
Modes == {"list", "all", "channel", "channels", "convert"}

\* what the file named by --convert may be; no file is named in other modes
Inputs(m) == IF m = "convert" THEN {"missing", "corrupt", "archive"} ELSE {None}

\* the command lines: the token may be absent from both --token and the
\* environment
CommandLines ==
    { c \in [token : {"", "xoxb"}, mode : Modes, only_joined : BOOLEAN,
              index : BOOLEAN, input : {"missing", "corrupt", "archive", None}] :
        c.input \in Inputs(c.mode) }

\* the parameters a method's def names, self left out
Params(method) ==
    CASE method = "get_all_channels"     -> {"exclude_archived"}
      [] method = "archive_all_channels" -> {"exclude_archived", "include_threads"}
      [] method = "archive_channel"      -> {"channel_id", "channel_name",
                                             "include_threads"}

\* the keyword arguments main passes to the first archiver call of a mode
MainKwargs(m) ==
    IF m = "all"
    THEN {"exclude_archived", "include_threads", "only_joined"}
    ELSE {"exclude_archived", "only_joined"}

\* the archiver method a mode calls first
FirstCall(m) == IF m = "all" THEN "archive_all_channels" ELSE "get_all_channels"

\* Python binds the call: every keyword names a parameter (else TypeError)
Binds(method, kwargs) == kwargs \subseteq Params(method)

\* parser.error: argparse prints the message and exits with status 2
UsageError == 2

\* the status main returns when the mode succeeded
Success == 0

\* the status main returns from its handler of Exception and for a mode
\* that failed
Failure == 1

\* the status main returns from its handler of KeyboardInterrupt
Interrupted == 130

MainInit ==
    /\ Fresh("main")
    /\ ws \in {"listing", "batch"}
    /\ args \in CommandLines
    /\ exit_code = Running
    /\ text = <<>>
    /\ format_type = ""
    /\ loaded = NoData
    /\ output = <<>>

\* what no step of main touches
mainFrame == <<ws, plan, mode, all_channels, channelVars, include_threads,
               channel, api_log, batchVars, clock, text, format_type, loaded,
               output>>

\* main constructing the archiver whatever the token
TokenNotChecked ==
    /\ pc = "main"
    /\ pc' = "users"
    /\ UNCHANGED <<mainFrame, args, exit_code, users_cache, cursor, logVars,
                   files, ret>>

\* main: the token check, before the archiver is constructed
MainCheckToken ==
    /\ pc = "main"
    /\ IF ~Truthy(args.token)
       THEN pc' = "exited" /\ exit_code' = UsageError
       ELSE pc' = "users" /\ UNCHANGED exit_code
    /\ UNCHANGED <<mainFrame, args, users_cache, cursor, logVars, files, ret>>

\* main leaves with status code, after the exception exc if any
MainReturns(code, exc) ==
    /\ pc' = "exited"
    /\ exit_code' = code
    /\ ret' = IF exc = None THEN ret ELSE [kind |-> "raise", exc |-> exc]

\* main: --list, --all, --channel, --channels: the mode's first call of the
\* archiver; a call that does not bind raises TypeError, which main's
\* handler of Exception turns into the failure status
MainCallsArchiver ==
    /\ pc = "ready"
    /\ args.mode \in Modes \ {"convert"}
    /\ IF Binds(FirstCall(args.mode), MainKwargs(args.mode))
       THEN /\ pc' = "channels"
            /\ UNCHANGED <<exit_code, ret>>
       ELSE MainReturns(Failure, "TypeError")
    /\ UNCHANGED <<mainFrame, args, users_cache, cursor, logVars, files>>

\* main: --convert: the input file is looked up, loaded and converted
MainConvert ==
    /\ pc = "ready"
    /\ args.mode = "convert"
    /\ CASE args.input = "missing" -> MainReturns(Failure, None)
         [] args.input = "corrupt" -> MainReturns(Failure, "JSONDecodeError")
         [] OTHER -> IF args.index
                     THEN pc' = "index" /\ UNCHANGED <<exit_code, ret>>
                     ELSE MainReturns(Success, None)
    /\ UNCHANGED <<mainFrame, args, users_cache, cursor, logVars, files>>

\* main: --index: create_index, whose result does not change the status
MainIndex ==
    /\ pc = "index"
    /\ \/ files' = Put(files, IndexName, CompleteFile(IndexData(files)))
       \/ files' = Put(files, IndexName, PartialFile)
       \/ UNCHANGED files
    /\ MainReturns(Success, None)
    /\ UNCHANGED <<mainFrame, args, users_cache, cursor, logVars>>

\* the operator interrupts main: inside the try block the handler returns
\* the interrupt status; while the archiver is constructed, before the try
\* block, KeyboardInterrupt leaves main
MainInterrupt ==
    /\ pc \in {"users", "ready", "index"}
    /\ IF pc = "users"
       THEN /\ pc' = "killed"
            /\ ret' = [kind |-> "raise", exc |-> "KeyboardInterrupt"]
            /\ UNCHANGED exit_code
       ELSE /\ pc' = "interrupted"
            /\ exit_code' = Interrupted
            /\ UNCHANGED ret
    /\ UNCHANGED <<mainFrame, args, users_cache, cursor, logVars, files>>

MainNext ==
    \/ MainCheckToken
    \/ UsersList
    \/ MainCallsArchiver
    \/ MainConvert
    \/ MainIndex
    \/ MainInterrupt

MainSpec == MainInit /\ [][MainNext]_vars

(***************************************************************************)
(* converter.py: SlackArchiveConverter.  A text is a sequence of pieces:   *)
(* the characters that the patterns name (< > & | @ # * _ and the          *)
(* backquote) are pieces of their own, a user or channel id, a URL and a   *)
(* run of other characters are one piece each.                             *)
(***************************************************************************)
\* pieces one text is put together from
MaxPieces == 3

\* the backquote character
Backquote == "BACKQUOTE"

\* [A-Z0-9]+
IsId(piece) == piece \in {"U123", "U1", "U2", "C1"}

\* https?://[^|>]+ up to the first piece that may end it
IsUrl(piece) == piece \in {"https://x.com"}

\* the texts of messages: a mention, a link with and without label, a
\* channel mention, words, an ampersand and a bold word, in any order
Pieces ==
    { <<"<", "@", "U123", ">">>,
      <<"<", "https://x.com", "|", "this", ">">>,
      <<"<", "https://x.com", ">">>,
      <<"<", "#", "C1", ">">>,
      <<" ", "check", " ">>,
      <<"&">>,
      <<"*", "bold", "*">> }

RECURSIVE TextsOf(_)
TextsOf(n) ==
    IF n = 0 THEN {<<>>}
    ELSE TextsOf(n - 1) \cup {t \o p : t \in TextsOf(n - 1), p \in Pieces}

Texts == TextsOf(MaxPieces)

\* the first position from from on whose piece is one of stops, 0 if none
RECURSIVE FirstAt(_, _, _)
FirstAt(t, from, stops) ==
    IF from > Len(t) THEN 0
    ELSE IF t[from] \in stops THEN from
    ELSE FirstAt(t, from + 1, stops)

\* url_pattern matched at the head of t: where group 1 ends, where the
\* match ends (0 if there is no match)
UrlStop(t) == IF Len(t) >= 2 /\ t[1] = "<" /\ IsUrl(t[2])
              THEN FirstAt(t, 3, {"|", ">"}) ELSE 0

UrlEnd(t) ==
    LET q == UrlStop(t)
    IN  IF q = 0 THEN 0
        ELSE IF t[q] = ">" THEN q
        ELSE LET r == FirstAt(t, q + 1, {">"})
             IN  IF r > q + 1 THEN r ELSE 0

\* url_pattern's groups 1 and 3 of the match at the head of t; a group that
\* took no part in the match is empty
UrlGroup1(t) == SubSeq(t, 2, UrlStop(t) - 1)
UrlGroup3(t) == SubSeq(t, UrlStop(t) + 1, UrlEnd(t) - 1)

\* url_pattern.sub(r'<a href="\1" target="_blank">\3</a>', text)
RECURSIVE UrlSubHtml(_)
UrlSubHtml(t) ==
    IF t = <<>> THEN <<>>
    ELSE IF UrlEnd(t) > 0
         THEN <<"<", "a href=\"">> \o UrlGroup1(t)
                  \o <<"\" target=\"", "_", "blank\"", ">">> \o UrlGroup3(t)
                  \o <<"<", "/a", ">">>
                  \o UrlSubHtml(SubSeq(t, UrlEnd(t) + 1, Len(t)))
         ELSE <<Head(t)>> \o UrlSubHtml(Tail(t))

\* url_pattern.sub(r'[\3](\1)', text)
RECURSIVE UrlSubMarkdown(_)
UrlSubMarkdown(t) ==
    IF t = <<>> THEN <<>>
    ELSE IF UrlEnd(t) > 0
         THEN <<"[">> \o UrlGroup3(t) \o <<"]", "(">> \o UrlGroup1(t) \o <<")">>
                  \o UrlSubMarkdown(SubSeq(t, UrlEnd(t) + 1, Len(t)))
         ELSE <<Head(t)>> \o UrlSubMarkdown(Tail(t))

\* url_pattern.sub(r'\1', text)
RECURSIVE UrlSubText(_)
UrlSubText(t) ==
    IF t = <<>> THEN <<>>
    ELSE IF UrlEnd(t) > 0
         THEN UrlGroup1(t) \o UrlSubText(SubSeq(t, UrlEnd(t) + 1, Len(t)))
         ELSE <<Head(t)>> \o UrlSubText(Tail(t))

\* text.replace('&', '&amp;').replace('<', '&lt;').replace('>', '&gt;')
Escape(t) ==
    [j \in 1..Len(t) |->
        CASE t[j] = "&" -> "&amp;"
          [] t[j] = "<" -> "&lt;"
          [] t[j] = ">" -> "&gt;"
          [] OTHER      -> t[j]]

\* user_mention_pattern (sigil @) or channel_mention_pattern (sigil #)
\* matched at the head of t: where the match ends (0 if there is none)
MentionEnd(t, sigil) ==
    IF Len(t) >= 4 /\ t[1] = "<" /\ t[2] = sigil /\ IsId(t[3])
    THEN IF t[4] = ">" THEN 4
         ELSE IF t[4] = "|"
              THEN LET r == FirstAt(t, 5, {">"}) IN IF r > 5 THEN r ELSE 0
              ELSE 0
    ELSE 0

\* user_mention_pattern.sub(r'@\1', text), channel_mention_pattern.sub(r'#\1', text)
RECURSIVE MentionSub(_, _)
MentionSub(t, sigil) ==
    IF t = <<>> THEN <<>>
    ELSE IF MentionEnd(t, sigil) > 0
         THEN <<sigil, t[3]>>
                  \o MentionSub(SubSeq(t, MentionEnd(t, sigil) + 1, Len(t)), sigil)
         ELSE <<Head(t)>> \o MentionSub(Tail(t), sigil)

\* the pattern mark([^mark]+)mark matched at the head of t: where it ends
WrapEnd(t, mark) ==
    IF t # <<>> /\ t[1] = mark
    THEN LET r == FirstAt(t, 2, {mark}) IN IF r > 2 THEN r ELSE 0
    ELSE 0

\* re.sub(r'\*([^*]+)\*', r'<strong>\1</strong>', text) and the like
RECURSIVE WrapSub(_, _, _)
WrapSub(t, mark, tag) ==
    IF t = <<>> THEN <<>>
    ELSE IF WrapEnd(t, mark) > 0
         THEN <<"<", tag, ">">> \o SubSeq(t, 2, WrapEnd(t, mark) - 1)
                  \o <<"<", "/" \o tag, ">">>
                  \o WrapSub(SubSeq(t, WrapEnd(t, mark) + 1, Len(t)), mark, tag)
         ELSE <<Head(t)>> \o WrapSub(Tail(t), mark, tag)

\* format_text
FormatText(t, fmt) ==
    IF t = <<>> THEN <<>>
    ELSE LET linked == CASE fmt = "html"     -> Escape(UrlSubHtml(t))
                         [] fmt = "markdown" -> UrlSubMarkdown(t)
                         [] OTHER            -> t
             mentioned == MentionSub(MentionSub(linked, "@"), "#")
         IN  IF fmt = "html"
             THEN WrapSub(WrapSub(WrapSub(mentioned, "*", "strong"), "_", "em"),
                          Backquote, "code")
             ELSE mentioned

\* a text and a format are handed to format_text
FormatInit ==
    /\ Fresh("format")
    /\ ws = "listing"
    /\ args = NoArgs
    /\ exit_code = Running
    /\ text \in Texts
    /\ format_type \in {"html", "markdown", "text"}
    /\ loaded = NoData
    /\ output = <<>>

\* what the converter's steps leave alone
convFrame == <<ws, plan, mode, users_cache, cursor, logVars, all_channels,
               channelVars, include_threads, channel, api_log, batchVars,
               files, clock, ret, args, exit_code>>

\* the converter's own state
convVars == <<text, format_type, loaded, output>>

\* format_text runs
FormatTextCall ==
    /\ pc = "format"
    /\ output' = FormatText(text, format_type)
    /\ pc' = "formatted"
    /\ UNCHANGED <<convFrame, text, format_type, loaded>>

FormatNext == FormatTextCall

FormatSpec == FormatInit /\ [][FormatNext]_vars

(***************************************************************************)
(* convert_to_text.  The text file is the sequence of its pieces; "\n"     *)
(* ends a line.                                                            *)
(***************************************************************************)
\* messages of a history as Slack sends them: plain ones, the system
\* message of a join (its text mentions the user who joined), a bot message
\* without user, and a thread parent with the legacy replies field
plain1 == [ts |-> "1", user |-> "U1", text |-> <<"hi">>]
plain2 == [ts |-> "2", user |-> "U2",
           text |-> <<"<", "@", "U1", ">", " ", "check", " ",
                      "<", "https://x.com", "|", "this", ">">>]
joined == [ts |-> "3", user |-> "U1", subtype |-> "channel_join",
           text |-> <<"<", "@", "U1", ">", " has joined the channel">>]
botmsg == [ts |-> "4", subtype |-> "bot_message", text |-> <<"build passed">>]
parent == [ts |-> "5", user |-> "U2", text |-> <<"thread">>, reply_count |-> 1,
           replies |-> <<[user |-> "U1", ts |-> "5"]>>]

ConverterPool == {plain1, plain2, joined, botmsg, parent}

\* the messages of set in the order of their ts
RECURSIVE InTsOrder(_)
InTsOrder(set) ==
    IF set = {} THEN <<>>
    ELSE LET first == CHOOSE m \in set :
                          \A o \in set : Float(m.ts) <= Float(o.ts)
         IN  <<first>> \o InTsOrder(set \ {first})

\* the archive documents handed to the converter: what archive_channel
\* assembles from a history, with an empty or a loaded user cache
ConverterDocuments ==
    { ArchiveData(general, EnrichAll(cache, InTsOrder(set))) :
        cache \in {EmptyDict, [x \in {"U1"} |-> "Alice"],
                   [x \in {"U1", "U2"} |-> IF x = "U1" THEN "Alice" ELSE "Bob"]},
        set \in SUBSET ConverterPool }

\* convert_to_text: the subtypes written without the author
SystemSubtypes == {"channel_join", "channel_leave", "bot_add"}

\* convert_to_text: username / reply_username
Username(msg) == Get(msg, "user_name", Get(msg, "user", "Unknown"))

\* convert_to_text: timestamp / reply_timestamp
Timestamp(msg) == Get(msg, "timestamp_readable", Get(msg, "ts", ""))

\* convert_to_text: the lines of the replies of a message ("+-" stands for
\* the box-drawing corner the code prints)
RECURSIVE ReplyLines(_)
ReplyLines(replies) ==
    IF replies = <<>> THEN <<>>
    ELSE <<"    +- [", Timestamp(Head(replies)), "] ", Username(Head(replies)), ": ">>
             \o MentionSub(MentionSub(Get(Head(replies), "text", <<>>), "@"), "#")
             \o <<"\n">>
             \o ReplyLines(Tail(replies))

\* convert_to_text: what one pass of the loop appends for msg
TextEntry(msg) ==
    LET body == UrlSubText(MentionSub(MentionSub(Get(msg, "text", <<>>), "@"), "#"))
    IN  IF Get(msg, "subtype", None) \in SystemSubtypes
        THEN <<"[", Timestamp(msg), "] ">> \o body \o <<"\n", "\n">>
        ELSE <<"[", Timestamp(msg), "] ", Username(msg), ": ">> \o body \o <<"\n">>
                 \o ReplyLines(Get(msg, "replies", <<>>))
                 \o <<"\n">>

\* convert_to_text: text_content after the header
RECURSIVE TextContent(_)
TextContent(msgs) ==
    IF msgs = <<>> THEN <<>>
    ELSE TextEntry(Head(msgs)) \o TextContent(Tail(msgs))

\* an archive document is handed to convert_to_text
TextInit ==
    /\ Fresh("convert")
    /\ ws = "listing"
    /\ args = NoArgs
    /\ exit_code = Running
    /\ text = <<>>
    /\ format_type = "text"
    /\ loaded \in ConverterDocuments
    /\ output = <<>>

\* convert_to_text runs
ConvertToText ==
    /\ pc = "convert"
    /\ output' = TextContent(loaded.messages)
    /\ pc' = "converted"
    /\ UNCHANGED <<convFrame, text, format_type, loaded>>

TextNext == ConvertToText

TextSpec == TextInit /\ [][TextNext]_vars

(***************************************************************************)
(* convert_to_html and convert_to_markdown, and the conversion of a file   *)
(* archive_channel has written.  The markup around a value is one piece.   *)
(***************************************************************************)
\* the formats of the converter
Formats == {"html", "markdown", "text"}

\* the piece every reply of a format begins with
ReplyMarker(fmt) ==
    CASE fmt = "html"     -> "<div class=\"thread-reply\">"
      [] fmt = "markdown" -> "> **"
      [] OTHER            -> "    +- ["

\* convert_to_html: the blocks of the replies of a message
RECURSIVE HtmlReplies(_)
HtmlReplies(replies) ==
    IF replies = <<>> THEN <<>>
    ELSE <<ReplyMarker("html"),
           "<span class=\"username\">", Username(Head(replies)), "</span>",
           "<span class=\"timestamp\">", Timestamp(Head(replies)), "</span>",
           "<div class=\"message-text\">">>
             \o FormatText(Get(Head(replies), "text", <<>>), "html")
             \o <<"</div>", "</div>", "\n">>
             \o HtmlReplies(Tail(replies))

\* convert_to_html: what one pass of the loop appends for msg
HtmlEntry(msg) ==
    LET css_class == IF Get(msg, "subtype", None) \in SystemSubtypes
                     THEN "message system-message" ELSE "message"
    IN  <<"<div class=\"", css_class, "\">",
          "<span class=\"username\">", Username(msg), "</span>",
          "<span class=\"timestamp\">", Timestamp(msg), "</span>",
          "<div class=\"message-text\">">>
            \o FormatText(Get(msg, "text", <<>>), "html")
            \o <<"</div>", "\n">>
            \o HtmlReplies(Get(msg, "replies", <<>>))
            \o <<"</div>", "\n">>

\* convert_to_markdown: the quoted blocks of the replies of a message
RECURSIVE MarkdownReplies(_)
MarkdownReplies(replies) ==
    IF replies = <<>> THEN <<>>
    ELSE <<ReplyMarker("markdown"), Username(Head(replies)), "** _",
           Timestamp(Head(replies)), "_", "\n", "> ", "\n", "> ">>
             \o FormatText(Get(Head(replies), "text", <<>>), "markdown")
             \o <<"\n", "\n">>
             \o MarkdownReplies(Tail(replies))

\* convert_to_markdown: what one pass of the loop appends for msg
MarkdownEntry(msg) ==
    LET body == FormatText(Get(msg, "text", <<>>), "markdown")
        replies == Get(msg, "replies", <<>>)
    IN  (IF Get(msg, "subtype", None) \in SystemSubtypes
         THEN <<"*", Timestamp(msg), "* - _">> \o body \o <<"_", "\n", "\n">>
         ELSE <<"**", Username(msg), "** _", Timestamp(msg), "_", "\n", "\n">>
                  \o body \o <<"\n", "\n">>
                  \o (IF replies # <<>>
                      THEN <<"**thread replies:**", "\n", "\n">>
                               \o MarkdownReplies(replies)
                      ELSE <<>>))
            \o <<"---", "\n", "\n">>

\* what one pass of the message loop of the converter of fmt appends
Entry(fmt, msg) ==
    CASE fmt = "html"     -> HtmlEntry(msg)
      [] fmt = "markdown" -> MarkdownEntry(msg)
      [] OTHER            -> TextEntry(msg)

\* the content the converter of fmt builds between header and footer
RECURSIVE Content(_, _)
Content(fmt, msgs) ==
    IF msgs = <<>> THEN <<>>
    ELSE Entry(fmt, Head(msgs)) \o Content(fmt, Tail(msgs))

\* the archiver is constructed in a workspace with threads or with a paged
\* history; one channel will be archived and the file converted
PipelineInit ==
    /\ Fresh("users")
    /\ ws \in {"threads", "history"}
    /\ FrontIdle

\* load_archive reads the file archive_channel has just returned the path
\* of, and one of the converters runs on it
ConvertArchive ==
    /\ pc = "ready"
    /\ ret.kind = "path"
    /\ Readable(files[ret.val])
    /\ loaded' = files[ret.val].doc
    /\ \E fmt \in Formats :
            /\ format_type' = fmt
            /\ output' = Content(fmt, loaded'.messages)
    /\ pc' = "converted"
    /\ UNCHANGED <<convFrame, text>>

PipelineNext ==
    \/ UsersList
    \/ CallArchiveChannel
    \/ ConversationsInfo
    \/ ConversationsHistory
    \/ ThreadLoop
    \/ ConversationsReplies
    \/ OpenFile
    \/ DumpFile
    \/ ConvertArchive

PipelineSpec == PipelineInit /\ [][PipelineNext]_vars

(***************************************************************************)
(* What the claims speak about.                                            *)
(***************************************************************************)
\* the archive documents produced: those written in full to the archive
\* directory and the one archive_channel has assembled and is writing
Documents ==
    {files[f].doc : f \in {g \in DOMAIN files \ {IndexName} :
                                files[g].state = "complete"}}
        \cup (IF pc \in {"open", "dump"} THEN {archive_data} ELSE {})

\* the items of the pages the running loop has received, in order
RECURSIVE Received(_)
Received(resps) ==
    IF resps = <<>> THEN <<>>
    ELSE Received(SubSeq(resps, 1, Len(resps) - 1)) \o resps[Len(resps)].items

\* the running loop's last request raised SlackApiError
CutShort == Len(requests) = Len(responses) + 1

\* msgs is ordered non-decreasing by the numeric value of ts
SortedByTs(msgs) ==
    /\ \A j \in 1..Len(msgs) : "ts" \in DOMAIN msgs[j] /\ Parseable(msgs[j].ts)
    /\ \A j, k \in 1..Len(msgs) :
            j < k => Float(msgs[j].ts) <= Float(msgs[k].ts)

\* C1: the messages of every archive document produced are sorted
\* non-decreasing by the numeric value of ts, whatever pages the history API
\* returned, in whatever order, and also when the fetch was cut short by an
\* API error.
C1_MessagesSorted == \A d \in Documents : SortedByTs(d.messages)

\* C1 witness: a document of three messages is assembled from a history
\* fetch that received them out of order and was cut short by an API error.
C1_Witness ==
    /\ ws = "history"
    /\ pc = "open"
    /\ Len(archive_data.messages) >= 3
    /\ CutShort
    /\ ~SortedByTs(Received(responses))

\* the thread replies embedded in message m
Replies(m) == Get(m, "thread_messages", <<>>)

\* C2: no element of a message's thread_messages has the message's own ts
\* (the replies API returns the parent first).
C2_RepliesExcludeParent ==
    \A d \in Documents : \A j \in 1..Len(d.messages) :
        \A k \in 1..Len(Replies(d.messages[j])) :
            Replies(d.messages[j])[k].ts # d.messages[j].ts

\* C3: a pagination loop sends no request after the first answer that
\* carries no next cursor or has has_more false, and asks for no page twice.
C3_StopsAtTerminalAnswer ==
    /\ \A k \in 1..Len(responses) : Terminal(responses[k]) => Len(requests) <= k
    /\ \A j, k \in 1..Len(requests) : j < k => requests[j] # requests[k]

\* how often x occurs in seq
Count(seq, x) == Cardinality({j \in 1..Len(seq) : seq[j] = x})

\* a and b hold the same items, each as often
SameItems(a, b) ==
    /\ Len(a) = Len(b)
    /\ \A j \in 1..Len(a) : Count(a, a[j]) = Count(b, a[j])

\* C4: when the request for page k raises an API error, get_all_channels,
\* get_channel_history and get_thread_messages raise nothing and return
\* exactly the items of pages 1..k-1 (the history sorted by timestamp).
C4_PartialResultOnError ==
    /\ (ret.kind = "list" /\ ret.by = "get_all_channels" /\ CutShort)
            => ret.val = Received(responses)
    /\ (mode = "all" /\ pc = "loop" /\ idx = 1 /\ CutShort)
            => channels = Received(responses)
    /\ (pc = "threads" /\ i = 0 /\ CutShort)
            => SortedByTs(messages) /\ SameItems(messages, Received(responses))
    /\ (pc = "threads" /\ i > 0 /\ CutShort)
            => Replies(messages[i]) = Received(responses)
    /\ ~(ret.kind = "raise" /\ CutShort)

\* the steps of the code, the operator's interrupt left out
Proceeds ==
    \/ ConversationsList
    \/ ConversationsInfo
    \/ ConversationsHistory
    \/ ThreadLoop
    \/ ConversationsReplies
    \/ OpenFile
    \/ DumpFile
    \/ ArchiveAllLoop
    \/ ArchiveAllStep

\* the archive_channel calls made so far are for the enumerated channels, one
\* each, in enumeration order; a returned archive_all_channels has called it
\* for all of them; the loop is never stuck
Attempted ==
    /\ Len(attempts) <= Len(channels)
    /\ \A j \in 1..Len(attempts) : attempts[j].channel = channels[j]
    /\ (ret.kind = "list" /\ ret.by = "archive_all_channels")
            => /\ Len(attempts) = Len(channels)
               /\ \A j \in 1..Len(attempts) : attempts[j].outcome # "running"
    /\ mode = "all" => ENABLED Proceeds

\* the code always takes its next step: every request is answered or fails
LiveSpec == Spec /\ WF_vars(Proceeds)

\* C5: archive_all_channels calls archive_channel once for every enumerated
\* channel, in enumeration order, whatever the earlier channels' outcome
\* (None or an exception); it never stops before the last channel, and
\* unless the process is interrupted it returns.
C5_EveryChannelAttempted ==
    /\ []Attempted
    /\ (mode = "all") ~> \/ pc = "dead"
                         \/ ret.kind = "list" /\ ret.by = "archive_all_channels"

\* C5 witness: archive_all_channels has returned after two channels, of
\* which the first raised an exception and the second was saved.
C5_Witness ==
    /\ ret.kind = "list"
    /\ ret.by = "archive_all_channels"
    /\ Len(channels) = 2
    /\ attempts[1].outcome = "raise"
    /\ attempts[2].outcome = "path"

\* C6: archive_channel returns None and raises nothing when the
\* channel-info call fails or the write fails; after a failed info call no
\* history or thread request was sent and no file was touched; in
\* archive_all_channels the channel is recorded as failed and the loop goes
\* on with the next channel.
C6_FatalChannelErrors ==
    [][/\ (pc = "info" /\ pc' \notin {"history", "dead"})
            => /\ ret'.kind = "None"
               /\ files' = files
               /\ api_log' = <<"conversations_info">>
       /\ (pc \in {"open", "dump"} /\ pc' \in {"ready", "returned"})
            => \/ ret'.kind = "None"
               \/ ret'.kind = "path" /\ files'[ret'.val].state = "complete"
       /\ (pc = "returned" /\ ret.kind = "None" /\ pc' # "dead")
            => /\ failed_channels' = Append(failed_channels, channel.name)
               /\ saved_files' = saved_files
               /\ pc' = "loop"
               /\ idx' = idx + 1
       /\ (pc = "loop" /\ idx <= Len(channels) /\ pc' # "dead")
            => pc' = "info" /\ channel' = channels[idx]
      ]_vars

\* C6 witness: in archive_all_channels the info call of the first of two
\* channels failed; the channel is recorded as failed, nothing but the info
\* call was sent, and the loop is about to process the second channel.
C6_Witness ==
    /\ mode = "all"
    /\ pc = "loop"
    /\ idx = 2
    /\ Len(channels) = 2
    /\ attempts[1].outcome = "None"
    /\ api_log = <<"conversations_info">>
    /\ failed_channels = <<channels[1].name>>
    /\ files = EmptyDict

\* C7: whenever no write is under way, every file of the archive directory
\* holds a complete archive document (a write is all or nothing).
C7_NoPartialFile ==
    pc # "dump" => \A f \in DOMAIN files : files[f].state = "complete"

\* C8: no step of archive_channel removes or changes an archive file that
\* an earlier call has written in full.
C8_NeverOverwrites ==
    [][\A f \in DOMAIN files :
            files[f].state = "complete"
                => f \in DOMAIN files' /\ files'[f] = files[f]
      ]_vars

\* the user identifiers a message may carry
UserIds == {"U1", "U2", "U3"}

\* C9: every cached name is a non-empty string, and the name resolved for an
\* identifier is never null or blank.
C9_NamesNeverBlank ==
    /\ \A u \in DOMAIN users_cache : Truthy(users_cache[u])
    /\ \A u \in UserIds : Truthy(GetUserName(users_cache, u))

\* message m carries the enrichment its fields call for
Enriched(m) ==
    /\ "user" \in DOMAIN m => "user_name" \in DOMAIN m
    /\ ("ts" \in DOMAIN m /\ Parseable(m.ts)) => "timestamp_readable" \in DOMAIN m

\* C10: in a document every top-level message and every element of every
\* thread_messages with a user and a parseable ts carries user_name and
\* timestamp_readable.
C10_ThreadMessagesEnriched ==
    \A d \in Documents : \A j \in 1..Len(d.messages) :
        /\ Enriched(d.messages[j])
        /\ \A k \in 1..Len(Replies(d.messages[j])) :
                Enriched(Replies(d.messages[j])[k])

\* the fetched history holds a message whose ts float() rejects
BadTsFetched ==
    \E k \in 1..Len(responses) : SortRaises(responses[k].items)

\* C11: a message with an unparseable ts in the fetched history is not
\* fatal: no exception leaves get_channel_history or archive_channel, and
\* the document that is assembled keeps the message without
\* timestamp_readable.
C11_BadTsNotFatal ==
    /\ ret.kind # "raise"
    /\ (pc = "threads" /\ i = 0 /\ BadTsFetched)
            => \E j \in 1..Len(messages) : ~Parseable(messages[j].ts)
    /\ \A d \in Documents : \A j \in 1..Len(d.messages) :
            ~Parseable(d.messages[j].ts)
                => "timestamp_readable" \notin DOMAIN d.messages[j]

\* create_index has just returned the path of the index it wrote
IndexWritten ==
    /\ ret.kind = "path"
    /\ ret.val = IndexName
    /\ IndexName \in DOMAIN files
    /\ files[IndexName].state = "complete"

\* the archive documents of the directory that json.load reads
ReadableArchives ==
    {f \in DOMAIN files \ {IndexName} : files[f].state = "complete"}

\* C12: the index create_index writes has exactly one entry per readable
\* archive document of the directory, in file-name order: INDEX.json is
\* never an entry, also when create_index runs again, and corrupt files are
\* skipped without aborting.
C12_IndexEntries ==
    IndexWritten =>
        LET archives == files[IndexName].doc.archives
        IN  /\ Len(archives) = Cardinality(ReadableArchives)
            /\ {archives[j].filename : j \in 1..Len(archives)} = ReadableArchives
            /\ \A j \in 1..Len(archives) :
                    /\ archives[j].channel_name
                           = files[archives[j].filename].doc.metadata.channel_name
                    /\ archives[j].message_count
                           = Len(files[archives[j].filename].doc.messages)
            /\ \A j, k \in 1..Len(archives) :
                    j < k => Before(archives[j].filename, archives[k].filename)

\* C12 witness: create_index has run for the second time over a directory
\* of two valid archive files, one corrupt archive file and the INDEX.json
\* of the first run, and has written two entries.
C12_Witness ==
    /\ IndexWritten
    /\ plan.index = 0
    /\ Len(files[IndexName].doc.archives) = 2
    /\ Cardinality(DOMAIN files) = 4
    /\ \E f \in DOMAIN files : files[f].state = "partial"

\* C13: main returns 0 when the mode succeeded, 1 when it failed and 130
\* when the operator interrupts: a --list or --all run against a healthy
\* API returns 0, --convert returns 0 exactly for a readable archive, and a
\* --channel or --channels run that archived nothing does not return 0.
C13_ExitCodes ==
    /\ pc = "interrupted" => exit_code = Interrupted
    /\ (pc = "exited" /\ Truthy(args.token)) =>
        /\ exit_code \in {Success, Failure}
        /\ (args.mode \in {"list", "all"} /\ ~CutShort) => exit_code = Success
        /\ args.mode = "convert"
                => (exit_code = Success <=> args.input = "archive")
        /\ (args.mode \in {"channel", "channels"} /\ files = EmptyDict)
                => exit_code # Success

\* C14: the calls main makes with only_joined are valid calls of
\* get_all_channels and archive_all_channels: none of them raises
\* TypeError.
C14_OnlyJoinedAccepted ==
    /\ ~(ret.kind = "raise" /\ ret.exc = "TypeError")
    /\ (pc = "exited" /\ Truthy(args.token) /\ args.mode = "list" /\ ~CutShort)
            => ret.kind = "list"

\* C16: with no token main ends before any network request: the archiver
\* is never constructed, no request is sent and nothing is cached.
C16_NoTokenNoNetwork ==
    ~Truthy(args.token) =>
        /\ pc \in {"main", "exited"}
        /\ requests = <<>>
        /\ responses = <<>>
        /\ users_cache = EmptyDict
        /\ pc = "exited" => exit_code = UsageError

\* C16 witness: main has ended with the usage error of a command line
\* without token.
C16_Witness ==
    /\ pc = "exited"
    /\ ~Truthy(args.token)
    /\ exit_code = UsageError
    /\ requests = <<>>

\* how many of the first j archive_channel calls ended (or did not end)
\* with a saved path
Saved(j) == Cardinality({k \in 1..j : attempts[k].outcome = "path"})
NotSaved(j) == Cardinality({k \in 1..j : attempts[k].outcome # "path"})

\* C15: when archive_all_channels returns, every enumerated channel is
\* accounted for exactly once: its file is in the returned list of saved
\* paths or its name is in the failure list, in enumeration order, so the
\* two lists together are as long as the enumeration.
C15_EveryChannelAccounted ==
    /\ (mode = "all" /\ pc = "loop")
            => Len(saved_files) + Len(failed_channels) = idx - 1
    /\ (ret.kind = "list" /\ ret.by = "archive_all_channels") =>
        /\ ret.val = saved_files
        /\ Len(saved_files) + Len(failed_channels) = Len(channels)
        /\ \A j \in 1..Len(channels) :
            IF attempts[j].outcome = "path"
            THEN \E now \in 0..clock :
                    saved_files[Saved(j)] = FileName(channels[j].name, now)
            ELSE failed_channels[NotSaved(j)] = channels[j].name

\* C15 witness: archive_all_channels has returned after two channels, the
\* first of which returned None and the second of which was saved.
C15_Witness ==
    /\ ret.kind = "list"
    /\ ret.by = "archive_all_channels"
    /\ Len(channels) = 2
    /\ attempts[1].outcome = "None"
    /\ attempts[2].outcome = "path"
    /\ Len(saved_files) = 1
    /\ Len(failed_channels) = 1

\* __init__ has returned and the caller has not called anything yet
JustConstructed == pc = "ready" /\ plan = Plans(ws) /\ ret = Void

\* C17: an API error on any page of users.list does not fail the
\* construction: __init__ completes with exactly the users of the pages
\* loaded before the error in the cache, and the documents archived later
\* name a user the cache lacks by the identifier.
C17_UsersErrorNotFatal ==
    /\ (pc = "users" \/ JustConstructed)
            => users_cache = LoadMembers(EmptyDict, Received(responses))
    /\ (pc = "ready" /\ ret.kind = "raise") => ret.exc # "SlackApiError"
    /\ pc # "dead" =>
        \A d \in Documents : \A j \in 1..Len(d.messages) :
            "user" \in DOMAIN d.messages[j] =>
                d.messages[j].user_name
                    = IF d.messages[j].user \in DOMAIN users_cache
                      THEN users_cache[d.messages[j].user]
                      ELSE d.messages[j].user

\* C17 witness: the constructor has returned after users.list answered one
\* page with a user and failed on the next request.
C17_Witness ==
    /\ JustConstructed
    /\ CutShort
    /\ Len(responses) >= 1
    /\ users_cache # EmptyDict

\* C18: after __init__ has returned no step of any operation changes
\* users_cache, so an identifier resolves to the same name at any two
\* points of a run.
C18_CacheReadOnly ==
    [][(pc # "users" /\ pc' # "dead")
            => /\ users_cache' = users_cache
               /\ \A u \in UserIds :
                    GetUserName(users_cache', u) = GetUserName(users_cache, u)
      ]_vars

\* C18 witness: with alice cached, a channel with a message of another user
\* has been archived and written.
C18_Witness ==
    /\ pc = "ready"
    /\ ret.kind = "path"
    /\ ret.val # IndexName
    /\ users_cache = [x \in {"U1"} |-> "Alice"]
    /\ \E j \in 1..Len(files[ret.val].doc.messages) :
            Get(files[ret.val].doc.messages[j], "user_name", "") = "U2"

\* the message text of the scenario and the HTML it is to become
MentionAndLink ==
    <<"<", "@", "U123", ">", " ", "check", " ",
      "<", "https://x.com", "|", "this", ">">>

MentionAndLinkHtml ==
    <<"@", "U123", " ", "check", " ",
      "<", "a href=\"", "https://x.com", "\" target=\"", "_", "blank\"", ">",
      "this", "<", "/a", ">">>

\* C19: format_text(..., 'html') turns "<@U123> check <https://x.com|this>"
\* into "@U123 check <a href="https://x.com" target="_blank">this</a>"; in
\* every text the anchor tags of the link substitution stay unescaped and
\* every mention is substituted.
C19_HtmlKeepsLinksAndMentions ==
    (pc = "formatted" /\ format_type = "html") =>
        /\ text = MentionAndLink => output = MentionAndLinkHtml
        /\ \A j \in 1..Len(output) :
                output[j] \in {"a href=\"", "/a"} => j > 1 /\ output[j - 1] = "<"
        /\ \A j \in 1..Len(output) :
                output[j] = "@" => (j = 1 \/ output[j - 1] # "&lt;")

\* the entries of a text file: the runs of pieces that an empty line ends
RECURSIVE EntriesOf(_, _)
EntriesOf(content, entry) ==
    IF content = <<>> THEN (IF entry = <<>> THEN <<>> ELSE <<entry>>)
    ELSE IF Head(content) = "\n" /\ entry # <<>> /\ entry[Len(entry)] = "\n"
         THEN <<entry>> \o EntriesOf(Tail(content), <<>>)
         ELSE EntriesOf(Tail(content), Append(entry, Head(content)))

\* the author names of a message: user_name, else user
Authors(msg) ==
    IF "user_name" \in DOMAIN msg THEN {msg.user_name}
    ELSE IF "user" \in DOMAIN msg THEN {msg.user}
    ELSE {}

\* C20: convert_to_text emits one entry per message of the document, in
\* the document's order, and the entry of every message, whatever its
\* subtype, contains the message's author name verbatim.
C20_TextKeepsAuthors ==
    pc = "converted" =>
        LET entries == EntriesOf(output, <<>>)
            msgs == loaded.messages
        IN  /\ Len(entries) = Len(msgs)
            /\ \A j \in 1..Len(msgs) :
                /\ entries[j][2] = Timestamp(msgs[j])
                /\ \A name \in Authors(msgs[j]) :
                        \E k \in 1..Len(entries[j]) : entries[j][k] = name

\* message j of archive_channel's messages has replies to fetch
Threaded(j) == Get(messages[j], "reply_count", 0) > 0

\* archive_channel is past get_channel_history and has not returned
PastHistory == pc \in {"threads", "replies", "open", "dump"}

\* C21: within one archive_channel call get_thread_messages is started
\* exactly once for each message with reply_count > 0, in the order of the
\* messages, never for a message with reply_count absent or 0, and only with
\* include_threads true; with include_threads false no conversations_replies
\* request is sent and no message of the document has a thread_messages field.
C21_ThreadFetchedOncePerThread ==
    /\ [][(pc = "threads" /\ pc' = "replies") =>
            /\ include_threads
            /\ i' \in (i + 1)..Len(messages)
            /\ Threaded(i')
            /\ \A j \in (i + 1)..(i' - 1) : ~Threaded(j)]_vars
    /\ [][(pc = "threads" /\ pc' = "open" /\ include_threads) =>
            /\ \A j \in (i + 1)..Len(messages) : ~Threaded(j)
            /\ \A j \in 1..Len(messages) :
                    Threaded(j) <=> "thread_messages" \in DOMAIN messages[j]]_vars
    /\ [](pc = "replies" => include_threads)
    /\ []((PastHistory /\ ~include_threads) =>
            /\ \A k \in 1..Len(api_log) : api_log[k] # "conversations_replies"
            /\ \A j \in 1..Len(messages) :
                    "thread_messages" \notin DOMAIN messages[j]
            /\ pc \in {"open", "dump"} =>
                    \A j \in 1..Len(archive_data.messages) :
                        "thread_messages" \notin DOMAIN archive_data.messages[j])

\* C21 witness: a document is assembled with threads from a history of a
\* message without reply_count, one with 2 replies and one with reply_count 0;
\* only the second carries thread_messages.
C21_Witness ==
    /\ pc = "open"
    /\ include_threads
    /\ Len(messages) = 3
    /\ "reply_count" \notin DOMAIN messages[1]
    /\ Threaded(2)
    /\ "thread_messages" \in DOMAIN messages[2]
    /\ Get(messages[3], "reply_count", 1) = 0
    /\ "thread_messages" \notin DOMAIN messages[3]

\* C22: every thread_messages sequence embedded in an archive document is
\* ordered ascending by ts, in whatever order the replies API returned its
\* pages and messages.
C22_ThreadMessagesSorted ==
    \A d \in Documents :
        \A j \in 1..Len(d.messages) : SortedByTs(Replies(d.messages[j]))

\* the reply is shown in out: a reply block of format fmt holds its
\* timestamp and its author
Shown(out, fmt, reply) ==
    \E p \in 1..Len(out) :
        /\ out[p] = ReplyMarker(fmt)
        /\ \E q \in (p + 1)..(p + 5) : q <= Len(out) /\ out[q] = Timestamp(reply)
        /\ \E q \in (p + 1)..(p + 5) : q <= Len(out) /\ out[q] = Username(reply)

\* C23: archiver and converter agree on the thread field: every thread reply
\* archive_channel embedded in a message that is not a system message is
\* shown in the output of convert_to_html, convert_to_markdown and
\* convert_to_text of the written document.
C23_ConvertersShowThreadReplies ==
    pc = "converted" =>
        \A j \in 1..Len(loaded.messages) :
            LET msg == loaded.messages[j]
            IN  Get(msg, "subtype", None) \notin SystemSubtypes =>
                    \A k \in 1..Len(Replies(msg)) :
                        Shown(output, format_type, Replies(msg)[k])

====
